---- MODULE Spec2Model ----
(***************************************************************************)
(* Model of calamari's ceph_refresh management command                     *)
(* (webapp/calamari/ceph/management/commands/ceph_refresh.py).             *)
(*                                                                         *)
(* Strings are sequences of atoms.  Every character the code splits or     *)
(* matches on (":", ".", "[", "]", "/", "+") is an atom of its own; the    *)
(* text between two such characters is one atom.  None is a reserved       *)
(* string.                                                                 *)
(***************************************************************************)
EXTENDS Integers, Sequences, FiniteSets, TLC

VARIABLES
    servers,      \* rows of the Server table
    statuses,     \* rows of the ServiceStatus table
    last,         \* record of the most recent _refresh_servers call
    passes,       \* number of _refresh_servers calls so far
    hpc,          \* position of Command.handle
    idx,          \* index of the cluster the loop of handle is at
    now,          \* the clock read at the start of the iteration
    cache,        \* memo of the client of this iteration: endpoint -> document
    wire,         \* the requests this client sent to the cluster API, in order
    reads,        \* the <<endpoint, document>> pairs _query returned, in order
    ran,          \* the steps of refresh run in this iteration, in order
    mem,          \* the Cluster objects loaded by handle
    db,           \* rows of the Cluster table
    db0,          \* the rows of the Cluster table when handle started
    result,       \* per cluster: how and when its refresh ended
    saved,        \* per cluster: whether the bookkeeping save succeeded
    arg,          \* the argument of the function under observation
    ret,          \* the value it returned
    called,       \* whether it has been called
    pools,        \* rows of the Pool table
    poolsLast     \* record of the most recent _populate_pools call

regVars == <<servers, statuses, last, passes>>

handleVars == <<hpc, idx, now, cache, wire, reads, ran, mem, db, db0, result, saved>>

callVars == <<arg, ret, called>>

poolVars == <<pools, poolsLast>>

vars == <<servers, statuses, last, passes, hpc, idx, now, cache, wire, reads, ran,
          mem, db, db0, result, saved, arg, ret, called,
          pools, poolsLast>>

None == <<"<None>">>

----------------------------------------------------------------------------
(* Python string helpers *)

\* s.startswith(p)
StartsWith(s, p) == Len(s) >= Len(p) /\ SubSeq(s, 1, Len(p)) = p

\* s.find(sep, i - 1) + 1: the position of the first occurrence of sep at or
\* after position i, 0 if none
RECURSIVE FindFrom(_, _, _)
FindFrom(s, sep, i) ==
    IF i + Len(sep) - 1 > Len(s)
    THEN 0
    ELSE IF SubSeq(s, i, i + Len(sep) - 1) = sep
         THEN i
         ELSE FindFrom(s, sep, i + 1)

IndexOf(s, sep) == FindFrom(s, sep, 1)

\* s.split(sep)[0]
SplitFirst(s, sep) ==
    LET i == IndexOf(s, sep)
    IN IF i = 0 THEN s ELSE SubSeq(s, 1, i - 1)

\* s.split(sep)
RECURSIVE Split(_, _)
Split(s, sep) ==
    LET i == IndexOf(s, sep)
    IN IF i = 0 THEN <<s>>
       ELSE <<SubSeq(s, 1, i - 1)>> \o Split(SubSeq(s, i + Len(sep), Len(s)), sep)

----------------------------------------------------------------------------
(* Address normalisation *)

\* a _short_addr without the branch for the bracketed form
ShortAddrUnbracketed(addr) == SplitFirst(addr, <<":">>)

ShortAddr(addr) ==
    IF StartsWith(addr, <<"[">>)
    THEN Tail(SplitFirst(addr, <<"]", ":">>))
    ELSE SplitFirst(addr, <<":">>)

----------------------------------------------------------------------------
(* Topology resolver and reverse-name fallback *)

CRUSH_OSD_TYPE == "osd"
CRUSH_HOST_TYPE == "host"

Localhost == <<"localhost">>

\* nodes_by_id = dict((n["id"], n) for n in osd_tree["nodes"]): the last node
\* with a given id wins
NodesById(nodes) ==
    [i \in {nodes[k].id : k \in DOMAIN nodes} |->
        nodes[CHOOSE k \in DOMAIN nodes :
                 nodes[k].id = i /\ \A j \in DOMAIN nodes : nodes[j].id = i => j <= k]]

RECURSIVE FindDescendants(_, _), FindInChildren(_, _, _)
FindDescendants(byId, cursor) ==
    IF cursor.type = CRUSH_OSD_TYPE
    THEN <<cursor>>
    ELSE FindInChildren(byId, cursor.children, 1)
FindInChildren(byId, children, k) ==
    IF k > Len(children)
    THEN <<>>
    ELSE FindDescendants(byId, byId[children[k]]) \o FindInChildren(byId, children, k + 1)

\* d[key] = value on a dict
Put(map, key, value) ==
    [n \in DOMAIN map \cup {key} |-> IF n = key THEN value ELSE map[n]]

\* self._crush_osd_hostnames[osd["name"]] = host, for every osd of the list
RECURSIVE AssignHost(_, _, _, _)
AssignHost(map, osds, k, host) ==
    IF k > Len(osds)
    THEN map
    ELSE AssignHost(Put(map, osds[k].name, host), osds, k + 1, host)

RECURSIVE CrushLoop(_, _, _, _)
CrushLoop(map, nodes, byId, k) ==
    IF k > Len(nodes)
    THEN map
    ELSE LET node == nodes[k]
         IN IF node.type = CRUSH_HOST_TYPE /\ node.name # Localhost
            THEN CrushLoop(AssignHost(map, FindDescendants(byId, node), 1, node.name),
                           nodes, byId, k + 1)
            ELSE CrushLoop(map, nodes, byId, k + 1)

\* the crush_osd_hostnames property: osd name -> host name
CrushOsdHostnames(osd_tree) ==
    CrushLoop(<<>>, osd_tree, NodesById(osd_tree), 1)

\* defaultdict(lambda: None) lookup
CrushLookup(map, name) == IF name \in DOMAIN map THEN map[name] ELSE None

\* [name for name in names if '.' not in name]
RECURSIVE ShortNames(_)
ShortNames(names) ==
    IF names = <<>>
    THEN <<>>
    ELSE IF IndexOf(Head(names), <<".">>) = 0
         THEN <<Head(names)>> \o ShortNames(Tail(names))
         ELSE ShortNames(Tail(names))

\* lookup is the outcome of socket.gethostbyaddr: an error, or a canonical
\* name and an alias list
ReverseDns(lookup) ==
    IF ~lookup.ok
    THEN None
    ELSE LET osd_names == lookup.aliaslist \o <<lookup.hostname>>
             osd_shortnames == ShortNames(osd_names)
         IN IF osd_shortnames # <<>>
            THEN osd_shortnames[1]
            ELSE SplitFirst(osd_names[1], <<".">>)

----------------------------------------------------------------------------
(* Service registry reconciler *)

OSD == "osd"
MON == "mon"

SsKey(x) == [cluster |-> x.cluster, addr |-> x.addr, type |-> x.type,
             service_id |-> x.service_id]

\* the address both loops of _refresh_servers hand to _register_service
ServiceAddr(raw) == ShortAddr(SplitFirst(raw, <<":">>))

\* ServiceStatus.objects.filter(~Q(server=server), server__cluster=cluster,
\*                              type=ServiceStatus.OSD, service_id=service_id)
MigrationMatches(rows, c, a, t, sid) ==
    {x \in rows : x.cluster = c /\ x.addr # a /\ x.type = OSD /\ x.service_id = sid}

\* the OSD branch: h is the topology's host of the osd, d the reverse-name
\* lookup that is used when h is missing or localhost
GuessOsdNames(server, h, d) ==
    IF h = None \/ h = Localhost
    THEN IF d = None
         THEN [server EXCEPT !.hostname = Localhost, !.name = Localhost]
         ELSE [server EXCEPT !.hostname = d, !.name = d]
    ELSE [server EXCEPT !.hostname = h, !.name = h]

\* a monitor whose lookup fails would get the default name of the OSD branch
GuessMonNamesLocalhost(server, name, d) ==
    IF d # None
    THEN [server EXCEPT !.hostname = d, !.name = d]
    ELSE [server EXCEPT !.hostname = Localhost, !.name = Localhost]

\* the MON branch: d is the reverse-name lookup
GuessMonNames(server, name, d) ==
    IF d # None
    THEN [server EXCEPT !.hostname = d, !.name = d]
    ELSE [server EXCEPT !.name = name]

\* the end of _register_service for a created service: guessed is the server
\* after the hostname branch and save
NameServer(st, server, guessed, a, t, name) ==
    [st EXCEPT !.servers = (@ \ {server}) \cup {guessed},
               !.oldAddrs = @ \ {a},
               !.osdServer = IF t = OSD
                             THEN Put(@, name, IF guessed.name = None
                                               THEN [guessed EXCEPT !.name = a]
                                               ELSE guessed)
                             ELSE @]

\* the hostname guessing of a newly created service on a server without
\* hostname; the result is the server object after the branch
GuessNames(server, t, name, env) ==
    IF t = OSD
    THEN GuessOsdNames(server, CrushLookup(CrushOsdHostnames(env.tree), name),
                       ReverseDns(env.dns[server.addr]))
    ELSE GuessMonNames(server, name, ReverseDns(env.dns[server.addr]))

\* the names would be guessed for every newly created service
NeedsNamesAlways(server) == TRUE

\* if server.hostname is None
NeedsNames(server) == server.hostname = None

\* One call of _register_service on the running state st of the pass.
RegisterService(st, c, a, t, sid, name, env) ==
    LET haveServer == \E s \in st.servers : s.cluster = c /\ s.addr = a
        server == IF haveServer
                  THEN CHOOSE s \in st.servers : s.cluster = c /\ s.addr = a
                  ELSE [cluster |-> c, addr |-> a, hostname |-> None, name |-> None]
        key == [cluster |-> c, addr |-> a, type |-> t, service_id |-> sid]
        created == ~(\E x \in st.statuses : SsKey(x) = key)
        row == [cluster |-> c, addr |-> a, type |-> t, service_id |-> sid, name |-> name]
        dead == MigrationMatches(st.statuses \cup {row}, c, a, t, sid)
        st1 == [st EXCEPT !.servers = @ \cup {server},
                          !.made = @ + (IF haveServer THEN 0 ELSE 1)]
    IN IF ~created
       THEN [st1 EXCEPT !.oldIds = @ \ {key},
                        !.oldAddrs = @ \ {a},
                        !.osdServer = IF t = OSD THEN Put(@, name, server) ELSE @]
       ELSE LET st2 == [st1 EXCEPT !.statuses = (@ \cup {row}) \ dead,
                                   !.fresh = @ \cup {key},
                                   !.made = @ + 1,
                                   !.gone = @ + Cardinality(dead)]
            IN IF NeedsNames(server) /\ t = OSD /\ env.fail = "osd/tree"
               THEN [st2 EXCEPT !.raised = TRUE]
               ELSE NameServer(st2, server,
                               IF NeedsNames(server)
                               THEN GuessNames(server, t, name, env)
                               ELSE server,
                               a, t, name)

\* for osd in osd_map['osds'] / for mon in mon_status['monmap']['mons']
RECURSIVE RegisterAll(_, _, _, _, _)
RegisterAll(st, c, services, k, env) ==
    IF k > Len(services) \/ st.raised
    THEN st
    ELSE LET s == services[k]
         IN RegisterAll(RegisterService(st, c, s.addr, s.type, s.service_id, s.name, env),
                        c, services, k + 1, env)

OsdServices(osds) ==
    [k \in DOMAIN osds |->
        [addr |-> ServiceAddr(osds[k].public_addr), type |-> OSD,
         service_id |-> osds[k].osd,
         name |-> <<"osd", ".", ToString(osds[k].osd)>>]]

MonServices(mons) ==
    [k \in DOMAIN mons |->
        [addr |-> ServiceAddr(mons[k].addr), type |-> MON,
         service_id |-> mons[k].rank,
         name |-> <<"mon", ".", mons[k].name>>]]

\* the stale rows when the services not seen in the maps are never cleared
StaleServicesKept(rows, oldIds, fresh) == {}

\* ServiceStatus.objects.filter(id__in=list(old_service_status_ids)): a row
\* created in this pass has a new id, which is in no set of old ids
StaleServices(rows, oldIds, fresh) ==
    {x \in rows : SsKey(x) \in oldIds /\ SsKey(x) \notin fresh}

\* Server.objects.filter(addr__in=list(old_server_addrs))
StaleServers(rows, oldAddrs) == {s \in rows : s.addr \in oldAddrs}

\* the state of a pass at its start: the ids and addresses of the cluster's
\* rows, and nothing created or deleted yet
OldRecords(svs, sts, c) ==
    [servers |-> svs, statuses |-> sts,
     oldIds |-> {SsKey(x) : x \in {y \in sts : y.cluster = c}},
     oldAddrs |-> {s.addr : s \in {z \in svs : z.cluster = c}},
     fresh |-> {}, made |-> 0, gone |-> 0, osdServer |-> <<>>,
     raised |-> FALSE]

\* the two deletes that end _refresh_servers, unless a registration raised;
\* deleting a server deletes the service rows that point to it
DeleteStale(st) ==
    LET deadSs == StaleServices(st.statuses, st.oldIds, st.fresh)
        deadSv == StaleServers(st.servers, st.oldAddrs)
        cascade == {x \in st.statuses \ deadSs :
                       \E s \in deadSv : s.cluster = x.cluster /\ s.addr = x.addr}
    IN IF st.raised
       THEN st
       ELSE [st EXCEPT !.statuses = (@ \ deadSs) \ cascade,
                       !.servers = @ \ deadSv,
                       !.gone = @ + Cardinality(deadSs) + Cardinality(deadSv)
                                  + Cardinality(cascade)]

\* _refresh_servers for cluster c; env.fail names the telemetry request
\* that raises in this pass ("none" when all succeed)
RefreshServers(svs, sts, c, osds, mons, env) ==
    IF env.fail \in {"mon_status", "osd/dump"}
    THEN [OldRecords(svs, sts, c) EXCEPT !.raised = TRUE]
    ELSE DeleteStale(RegisterAll(RegisterAll(OldRecords(svs, sts, c),
                                             c, OsdServices(osds), 1, env),
                                 c, MonServices(mons), 1, env))

----------------------------------------------------------------------------
(* Telemetry documents and resolver outcomes a pass can meet *)

MaxPasses == 3

Clusters == {1}

OsdIds == {0, 1}
MonRanks == {0}

Ip4A == <<"10", ".", "0", ".", "0", ".", "1", ":", "6800", "/", "0">>
Ip4B == <<"10", ".", "0", ".", "0", ".", "2", ":", "6800", "/", "0">>
Ip6A == <<"[", "fe80", ":", ":", "1", "]", ":", "6800", "/", "0">>
Ip6B == <<"[", "fe80", ":", ":", "2", "]", ":", "6800", "/", "0">>

RawAddrs == {Ip4A, Ip4B, Ip6A, Ip6B}

\* the addresses the services of the registry passes are observed at
RegAddrs == {Ip4A, Ip4B}

Absent == <<"<absent>">>

MonNames == <<"a", "b", "c", "d">>

\* the osds of ids that f maps to an address, in ascending order of id
RECURSIVE ListedOsds(_, _)
ListedOsds(f, ids) ==
    IF ids = {}
    THEN <<>>
    ELSE LET i == CHOOSE x \in ids : \A y \in ids : x <= y
         IN (IF f[i] = Absent THEN <<>> ELSE << [osd |-> i, public_addr |-> f[i]] >>)
            \o ListedOsds(f, ids \ {i})

\* the monitors of ranks that f maps to an address, in ascending order of rank
RECURSIVE ListedMons(_, _)
ListedMons(f, ranks) ==
    IF ranks = {}
    THEN <<>>
    ELSE LET r == CHOOSE x \in ranks : \A y \in ranks : x <= y
         IN (IF f[r] = Absent THEN <<>>
             ELSE << [rank |-> r, name |-> MonNames[r + 1], addr |-> f[r]] >>)
            \o ListedMons(f, ranks \ {r})

\* the 'osds' lists of osd/dump
OsdMaps == {ListedOsds(f, OsdIds) : f \in [OsdIds -> RegAddrs \cup {Absent}]}

\* the monmap 'mons' lists of mon_status
MonMaps == {ListedMons(f, MonRanks) : f \in [MonRanks -> RegAddrs \cup {Absent}]}

OsdNode(i) == [id |-> i, name |-> <<"osd", ".", ToString(i)>>, type |-> CRUSH_OSD_TYPE,
               children |-> <<>>]

\* root -> host node1 -> osd.0, osd.1
TreeNode1 ==
    << [id |-> -1, name |-> <<"default">>, type |-> "root", children |-> <<-2>>],
       [id |-> -2, name |-> <<"node1">>, type |-> CRUSH_HOST_TYPE, children |-> <<0, 1>>],
       OsdNode(0), OsdNode(1) >>

\* host localhost -> osd.0; rack -> host node2 -> osd.1
TreeLocal ==
    << [id |-> -2, name |-> Localhost, type |-> CRUSH_HOST_TYPE, children |-> <<0>>],
       [id |-> -3, name |-> <<"rack1">>, type |-> "rack", children |-> <<-4>>],
       [id |-> -4, name |-> <<"node2">>, type |-> CRUSH_HOST_TYPE, children |-> <<1>>],
       OsdNode(0), OsdNode(1) >>

OsdTrees == {TreeLocal}

ServiceAddrs == {ServiceAddr(raw) : raw \in RawAddrs}

LookupFails == [ok |-> FALSE, hostname |-> <<>>, aliaslist |-> <<>>]
LookupFqdn == [ok |-> TRUE, hostname |-> <<"store", ".", "example", ".", "com">>,
               aliaslist |-> <<>>]

\* outcomes of socket.gethostbyaddr per address
DnsTables == {[a \in ServiceAddrs |-> LookupFails]}

----------------------------------------------------------------------------
(* The registry under repeated reconcile passes *)

\* the services of the documents that had a row at another server before
MovedServices(sts, c, services) ==
    {<<services[k].type, services[k].service_id>> : k \in
        {j \in DOMAIN services :
            \E x \in sts : /\ x.cluster = c
                           /\ x.type = services[j].type
                           /\ x.service_id = services[j].service_id
                           /\ x.addr # services[j].addr}}

\* self._osd_name_to_server["osd.%d" % (osd_id,)] raised
KeyError == <<"<KeyError>">>

\* the 'host' that fixup_osd of _populate_osds_and_pgs gives the osd, with
\* osdServer the _osd_name_to_server that _refresh_servers left
FixupOsdHost(osd, osdServer) ==
    IF <<"osd", ".", ToString(osd.osd)>> \notin DOMAIN osdServer
    THEN KeyError
    ELSE IF osdServer[<<"osd", ".", ToString(osd.osd)>>].hostname \notin {None, <<>>}
         THEN osdServer[<<"osd", ".", ToString(osd.osd)>>].hostname
         ELSE osdServer[<<"osd", ".", ToString(osd.osd)>>].addr

\* what the pass leaves behind for observation: its documents, whether
\* _refresh_servers raised, and the hosts fixup_osd gives the osds of the
\* same (cached) osd map
Record(c, osds, mons, env, r) ==
    [cluster |-> c, osds |-> osds, mons |-> mons, tree |-> env.tree, dns |-> env.dns,
     raised |-> r.raised,
     hosts |-> IF r.raised THEN <<>>
               ELSE [k \in DOMAIN osds |-> FixupOsdHost(osds[k], r.osdServer)],
     changed |-> r.made + r.gone > 0,
     repeat |-> /\ ~r.raised /\ ~last.raised
                /\ last.cluster = c /\ last.osds = osds /\ last.mons = mons,
     moved |-> IF r.raised THEN {}
               ELSE MovedServices(statuses, c, OsdServices(osds) \o MonServices(mons))]

\* no _refresh_servers call has been made
NoPass == [cluster |-> 0, osds |-> <<>>, mons |-> <<>>, tree |-> <<>>, dns |-> <<>>,
           raised |-> TRUE, hosts |-> <<>>,
           changed |-> FALSE, repeat |-> FALSE, moved |-> {}]

RegistryInit ==
    /\ servers = {}
    /\ statuses = {}
    /\ last = NoPass
    /\ passes = 0

\* the store after a _refresh_servers call that ended in r
Commit(c, osds, mons, env, r) ==
    /\ passes' = passes + 1
    /\ servers' = r.servers
    /\ statuses' = r.statuses
    /\ last' = Record(c, osds, mons, env, r)
    /\ UNCHANGED <<handleVars, callVars, poolVars>>

\* one _refresh_servers call in which mon_status and osd/dump are served
Reconcile(c, osds, mons, tree, dns, fail) ==
    /\ passes < MaxPasses
    /\ Commit(c, osds, mons, [tree |-> tree, dns |-> dns],
              RefreshServers(servers, statuses, c, osds, mons,
                             [tree |-> tree, dns |-> dns, fail |-> fail]))

\* one _refresh_servers call in which mon_status or osd/dump raises
ReconcileFetchFails(c, fail) ==
    /\ passes < MaxPasses
    /\ Commit(c, <<>>, <<>>, [tree |-> <<>>, dns |-> <<>>],
              RefreshServers(servers, statuses, c, <<>>, <<>>,
                             [tree |-> <<>>, dns |-> <<>>, fail |-> fail]))

Next ==
    \/ \E c \in Clusters, osds \in OsdMaps, mons \in MonMaps, tree \in OsdTrees,
          dns \in DnsTables, fail \in {"none", "osd/tree"} :
            Reconcile(c, osds, mons, tree, dns, fail)
    \/ \E c \in Clusters, fail \in {"mon_status", "osd/dump"} :
            ReconcileFetchFails(c, fail)

----------------------------------------------------------------------------
(* The registry when the topology and the name service change between passes *)

NameTrees == {TreeLocal, TreeNode1}

NameDnsTables == {[a \in ServiceAddrs |-> l] : l \in {LookupFails, LookupFqdn}}

\* the 'osds' lists with osd 0 or no osd
OsdMapsOne == {ListedOsds(f, {0}) : f \in [{0} -> RegAddrs \cup {Absent}]}

NextNames ==
    \/ \E c \in Clusters, osds \in OsdMapsOne, mons \in MonMaps, tree \in NameTrees,
          dns \in NameDnsTables, fail \in {"none", "osd/tree"} :
            Reconcile(c, osds, mons, tree, dns, fail)
    \/ \E c \in Clusters, fail \in {"mon_status", "osd/dump"} :
            ReconcileFetchFails(c, fail)

----------------------------------------------------------------------------
(* The registry of two clusters whose services have addresses of both forms *)

WideClusters == {1, 2}

WideAddrs == {Ip4A, Ip6A, Ip6B}

\* the 'osds' lists with osd 0 or no osd
OsdMapsWide == {ListedOsds(f, {0}) : f \in [{0} -> WideAddrs \cup {Absent}]}

\* the monmap 'mons' lists with the monitor of rank 0 or no monitor
MonMapsWide == {ListedMons(f, {0}) : f \in [{0} -> WideAddrs \cup {Absent}]}

NextWide ==
    \/ \E c \in WideClusters, osds \in OsdMapsWide, mons \in MonMapsWide,
          tree \in OsdTrees, dns \in DnsTables, fail \in {"none", "osd/tree"} :
            Reconcile(c, osds, mons, tree, dns, fail)
    \/ \E c \in WideClusters, fail \in {"mon_status", "osd/dump"} :
            ReconcileFetchFails(c, fail)


----------------------------------------------------------------------------
(* Command.handle: one run over the list of clusters *)

NumClusters == 2

ClusterList == 1..NumClusters

\* the time of the earlier run that wrote the rows handle starts from
Earlier == 0

NoMsg == "None"

SnapshotFields == {"space", "health", "counters", "osds", "pgs", "osds_by_pg_state"}

\* A snapshot field holds the time of the pass whose documents it was built
\* from.  Rows a run can start from: a snapshot of an earlier run, with the
\* error fields of a run that succeeded or of one that failed on the REST API.
ClusterRows ==
    {[space |-> Earlier, health |-> Earlier, counters |-> Earlier, osds |-> Earlier,
      pgs |-> Earlier, osds_by_pg_state |-> Earlier,
      cluster_update_time |-> Earlier,
      cluster_update_attempt_time |-> Earlier,
      cluster_update_error_isclient |-> e[1],
      cluster_update_error_msg |-> e[2]] :
        e \in {<<FALSE, NoMsg>>, <<TRUE, "traceback">>}}

\* the requests of one step, in the order the step makes them
ServersFetches(treeNeeded) ==
    <<"mon_status", "osd/dump">> \o (IF treeNeeded THEN <<"osd/tree">> ELSE <<>>)
CountersFetches == <<"pg/dump?dumpcontents=pools", "osd/dump", "status", "status", "status">>
HealthFetches == <<"health?detail">>
OsdsAndPgsFetches == <<"pg/dump?dumpcontents=pgs_brief", "osd/lspools", "osd/dump">>
PoolsFetches == <<"osd/dump", "df">>
SpaceFetches == <<"df">>

NoFailure == [at |-> 0, kind |-> "none"]

\* what can happen to the _query calls L of a step: all return, or the k-th
\* raises a RequestException ("request") or another exception ("other");
\* only a call that goes to the cluster API can raise
Outcomes(L, memo) ==
    {NoFailure} \cup
    {[at |-> k, kind |-> e] :
        k \in {j \in DOMAIN L : L[j] \notin DOMAIN memo /\ \A i \in 1..(j - 1) : L[i] # L[j]},
        e \in {"request", "other"}}

\* the number of calls of L that returned before the step ends
Served(L, out) == IF out.at = 0 THEN Len(L) ELSE out.at - 1

\* a memoize wrapper that forgets what the function returned
RememberNothing(memo, endpoint, rv) == memo

\* memo[args] = rv
Remember(memo, endpoint, rv) == Put(memo, endpoint, rv)

\* the document the cluster API serves to the n-th request it gets from this
\* client: no two requests get the same one
Document(n) == n

\* one call of _query through the memoize wrapper; c is the client: its
\* memo, the requests it sent and the values it returned
Query(c, endpoint, fails) ==
    IF endpoint \in DOMAIN c.memo
    THEN [c EXCEPT !.reads = Append(@, <<endpoint, c.memo[endpoint]>>)]
    ELSE IF fails
         THEN [c EXCEPT !.wire = Append(@, endpoint)]
         ELSE [c EXCEPT !.wire = Append(@, endpoint),
                        !.memo = Remember(@, endpoint, Document(Len(c.wire) + 1)),
                        !.reads = Append(@, <<endpoint, Document(Len(c.wire) + 1)>>)]

\* the _query calls L of a step from the k-th on, up to the one that raises
RECURSIVE QueryAll(_, _, _, _)
QueryAll(c, L, k, out) ==
    IF k > Len(L) \/ (out.at # 0 /\ k > out.at)
    THEN c
    ELSE QueryAll(Query(c, L[k], k = out.at), L, k + 1, out)

\* the client after a step
ClientBecomes(c) == cache' = c.memo /\ wire' = c.wire /\ reads' = c.reads

\* the client makes the _query calls L of a step
Memoized(L, out) ==
    ClientBecomes(QueryAll([memo |-> cache, wire |-> wire, reads |-> reads], L, 1, out))

\* an except clause that also stamps the time of the pass as a success
OnExceptionStamped(obj, kind, t) ==
    [obj EXCEPT !.cluster_update_error_isclient = IF kind = "request" THEN TRUE ELSE @,
                !.cluster_update_error_msg = "traceback",
                !.cluster_update_time = t]

\* the body of 'except Exception as e' in handle, entered at time t
OnException(obj, kind, t) ==
    [obj EXCEPT !.cluster_update_error_isclient = IF kind = "request" THEN TRUE ELSE @,
                !.cluster_update_error_msg = "traceback"]

\* the position of handle after the iteration of the k-th cluster
AfterCluster(k) == IF k = NumClusters THEN "finish" ELSE "begin"

\* the run ends where the save raised
AfterSaveErrorUncaught(k) == "crashed"

\* the position of handle after cluster.save() of the bookkeeping raised:
\* the exception is caught and the loop goes on
AfterSaveError(k) == AfterCluster(k)

\* a step of refresh ends: on to the next step, or into the except clause
StepEnds(k, obj, out, nextPc) ==
    /\ ran' = Append(ran, [step |-> hpc, raised |-> out.at # 0])
    /\ IF out.at = 0
       THEN /\ mem' = [mem EXCEPT ![k] = obj]
            /\ hpc' = nextPc
            /\ UNCHANGED result
       ELSE /\ mem' = [mem EXCEPT ![k] = OnException(obj, out.kind, now)]
            /\ hpc' = "bookkeeping"
            /\ result' = [result EXCEPT ![k] = [how |-> out.kind, time |-> now]]

\* the error fields of the earlier run would be left as they are
ResetErrorsSkipped(obj) == obj

\* lines 662-663: reset error fields
ResetErrors(obj) ==
    [obj EXCEPT !.cluster_update_error_isclient = FALSE,
                !.cluster_update_error_msg = NoMsg]

\* refresh would start with a populate step
FirstStepPopulate == "counters"

\* refresh starts with self._refresh_servers()
FirstStep == "servers"

HandleInit ==
    /\ hpc = "begin"
    /\ idx = 1
    /\ now = Earlier
    /\ cache = <<>> /\ wire = <<>> /\ reads = <<>> /\ ran = <<>>
    /\ db \in [ClusterList -> ClusterRows]
    /\ db0 = db
    /\ mem = db
    /\ result = [k \in ClusterList |-> [how |-> "pending", time |-> Earlier]]
    /\ saved = [k \in ClusterList |-> FALSE]

\* lines 659-663 and the construction of client and adapter
BeginCluster ==
    /\ hpc = "begin"
    /\ now' = now + 1
    /\ cache' = <<>> /\ wire' = <<>> /\ reads' = <<>> /\ ran' = <<>>
    /\ mem' = [mem EXCEPT ![idx] = ResetErrors(mem[idx])]
    /\ hpc' = FirstStep
    /\ UNCHANGED <<idx, db, db0, result, saved, regVars, callVars, poolVars>>

\* self._refresh_servers(): the cluster object is not touched
RefreshServersStep(treeNeeded, out) ==
    /\ hpc = "servers"
    /\ Memoized(ServersFetches(treeNeeded), out)
    /\ StepEnds(idx, mem[idx], out, "counters")
    /\ UNCHANGED <<idx, now, db, db0, saved, regVars, callVars, poolVars>>

PopulateCounters(out) ==
    /\ hpc = "counters"
    /\ Memoized(CountersFetches, out)
    /\ StepEnds(idx,
                IF out.at = 0 THEN [mem[idx] EXCEPT !.counters = now] ELSE mem[idx],
                out, "health")
    /\ UNCHANGED <<idx, now, db, db0, saved, regVars, callVars, poolVars>>

PopulateHealth(out) ==
    /\ hpc = "health"
    /\ Memoized(HealthFetches, out)
    /\ StepEnds(idx,
                IF out.at = 0 THEN [mem[idx] EXCEPT !.health = now] ELSE mem[idx],
                out, "osds_and_pgs")
    /\ UNCHANGED <<idx, now, db, db0, saved, regVars, callVars, poolVars>>

PopulateOsdsAndPgs(out) ==
    LET n == Served(OsdsAndPgsFetches, out)
        obj1 == IF n >= 1 THEN [mem[idx] EXCEPT !.pgs = now] ELSE mem[idx]
        obj2 == IF n >= 2 THEN [obj1 EXCEPT !.osds_by_pg_state = now] ELSE obj1
        obj3 == IF n >= 3 THEN [obj2 EXCEPT !.osds = now] ELSE obj2
    IN /\ hpc = "osds_and_pgs"
       /\ Memoized(OsdsAndPgsFetches, out)
       /\ StepEnds(idx, obj3, out, "pools")
       /\ UNCHANGED <<idx, now, db, db0, saved, regVars, callVars, poolVars>>

\* _populate_pools writes Pool rows, not the cluster object
PopulatePools(out) ==
    /\ hpc = "pools"
    /\ Memoized(PoolsFetches, out)
    /\ StepEnds(idx, mem[idx], out, "space")
    /\ UNCHANGED <<idx, now, db, db0, saved, regVars, callVars, poolVars>>

PopulateSpace(out) ==
    /\ hpc = "space"
    /\ Memoized(SpaceFetches, out)
    /\ StepEnds(idx,
                IF out.at = 0 THEN [mem[idx] EXCEPT !.space = now] ELSE mem[idx],
                out, "save")
    /\ UNCHANGED <<idx, now, db, db0, saved, regVars, callVars, poolVars>>

\* self.cluster.save() at the end of refresh, then line 668
SaveSnapshot(ok) ==
    /\ hpc = "save"
    /\ IF ok
       THEN /\ db' = [db EXCEPT ![idx] = mem[idx]]
            /\ mem' = [mem EXCEPT ![idx].cluster_update_time = now]
            /\ result' = [result EXCEPT ![idx] = [how |-> "ok", time |-> now]]
       ELSE /\ db' = db
            /\ mem' = [mem EXCEPT ![idx] = OnException(mem[idx], "other", now)]
            /\ result' = [result EXCEPT ![idx] = [how |-> "save", time |-> now]]
    /\ hpc' = "bookkeeping"
    /\ UNCHANGED <<idx, now, cache, wire, reads, ran, db0, saved, regVars, callVars, poolVars>>

\* lines 683-689
Bookkeeping(ok) ==
    LET obj == [mem[idx] EXCEPT !.cluster_update_attempt_time = now]
    IN /\ hpc = "bookkeeping"
       /\ mem' = [mem EXCEPT ![idx] = obj]
       /\ IF ok
          THEN /\ db' = [db EXCEPT ![idx] = obj]
               /\ saved' = [saved EXCEPT ![idx] = TRUE]
               /\ hpc' = AfterCluster(idx)
          ELSE /\ db' = db
               /\ saved' = saved
               /\ hpc' = AfterSaveError(idx)
       /\ idx' = idx + 1
       /\ UNCHANGED <<now, cache, wire, reads, ran, db0, result, regVars, callVars, poolVars>>

\* line 690
Finish ==
    /\ hpc = "finish"
    /\ hpc' = "done"
    /\ UNCHANGED <<idx, now, cache, wire, reads, ran, mem, db, db0, result, saved,
                   regVars, callVars, poolVars>>

NextHandle ==
    \/ BeginCluster
    \/ \E t \in BOOLEAN : \E out \in Outcomes(ServersFetches(t), cache) :
          RefreshServersStep(t, out)
    \/ \E out \in Outcomes(CountersFetches, cache) : PopulateCounters(out)
    \/ \E out \in Outcomes(HealthFetches, cache) : PopulateHealth(out)
    \/ \E out \in Outcomes(OsdsAndPgsFetches, cache) : PopulateOsdsAndPgs(out)
    \/ \E out \in Outcomes(PoolsFetches, cache) : PopulatePools(out)
    \/ \E out \in Outcomes(SpaceFetches, cache) : PopulateSpace(out)
    \/ \E ok \in BOOLEAN : SaveSnapshot(ok)
    \/ \E ok \in BOOLEAN : Bookkeeping(ok)
    \/ Finish

\* the registry while handle is observed alone, and handle while the
\* registry is observed alone
RegistryIdle == servers = {} /\ statuses = {} /\ passes = 0 /\ last = NoPass
HandleIdle ==
    /\ hpc = "idle" /\ idx = 0 /\ now = Earlier
    /\ cache = <<>> /\ wire = <<>> /\ reads = <<>> /\ ran = <<>>
    /\ mem = <<>> /\ db = <<>> /\ db0 = <<>> /\ result = <<>> /\ saved = <<>>

CallIdle == arg = <<>> /\ ret = <<>> /\ called = FALSE

\* no _populate_pools call has been made on an empty Pool table
NoPoolsCall == [n |-> 0, cluster |-> 0, osd_map_pools |-> <<>>, df_pools |-> <<>>,
                before |-> {}, ids |-> 0]

PoolsIdle == pools = {} /\ poolsLast = NoPoolsCall

----------------------------------------------------------------------------
(* _short_addr on the two address forms *)

MaxIpAtoms == 4

\* the strings of 1..n atoms of the alphabet
Strings(alphabet, n) == UNION {[1..k -> alphabet] : k \in 1..n}

Ip4Examples == {<<"192", ".", "168", ".", "0", ".", "1">>}
Ip6Examples == {<<"fe80", ":", ":", "1">>}

Ip4s == Strings({"10", "1", "."}, MaxIpAtoms) \cup Ip4Examples
Ip6s == Strings({"fe80", "1", ":", "."}, MaxIpAtoms) \cup Ip6Examples

Ports == {<<"6800">>, <<"0">>}
Nonces == {<<"0">>, <<"1234">>}

\* 'ip:port/nonce'
Ip4Form(ip, port, nonce) == ip \o <<":">> \o port \o <<"/">> \o nonce
\* '[ip]:port/nonce'
Ip6Form(ip, port, nonce) == <<"[">> \o ip \o <<"]", ":">> \o port \o <<"/">> \o nonce

AddrArgs ==
    {[form |-> "ipv4", ip |-> ip, raw |-> Ip4Form(ip, port, nonce)] :
        ip \in Ip4s, port \in Ports, nonce \in Nonces}
    \cup {[form |-> "ipv6", ip |-> ip, raw |-> Ip6Form(ip, port, nonce)] :
        ip \in Ip6s, port \in Ports, nonce \in Nonces}

InitAddr ==
    /\ arg \in AddrArgs
    /\ ret = <<>>
    /\ called = FALSE
    /\ RegistryIdle /\ HandleIdle /\ PoolsIdle

ShortAddrCall ==
    /\ ~called
    /\ ret' = ShortAddr(arg.raw)
    /\ called' = TRUE
    /\ UNCHANGED <<arg, regVars, handleVars, poolVars>>

NextAddr == ShortAddrCall

----------------------------------------------------------------------------
(* _calculate_osd_counters *)

MaxOsds == 4

\* the 'osds' lists of osd/dump as the counters read them: up and in are 0 or 1
OsdFlagLists ==
    UNION {[1..k -> [up : {0, 1}, in : {0, 1}]] : k \in 0..MaxOsds}

\* Python truth of an integer
Truthy(v) == v # 0

\* the for loop of _calculate_osd_counters from the k-th osd on
RECURSIVE CountOsds(_, _, _)
CountOsds(counters, osds, k) ==
    IF k > Len(osds)
    THEN counters
    ELSE LET up == Truthy(osds[k].up)
             inn == Truthy(osds[k].in)
         IN CountOsds(
              IF ~up /\ ~inn THEN [counters EXCEPT !.not_up_not_in = @ + 1]
              ELSE IF ~up /\ inn THEN [counters EXCEPT !.not_up_in = @ + 1]
              ELSE IF up /\ ~inn THEN [counters EXCEPT !.up_not_in = @ + 1]
              ELSE IF up /\ inn THEN [counters EXCEPT !.up_in = @ + 1]
              ELSE counters,
              osds, k + 1)

\* a warn count that leaves out the osds that are down and in
WarnCountUpOnly(counters) == counters.up_not_in

WarnCount(counters) == counters.up_not_in + counters.not_up_in

\* a dict with the given key when n > 0, the empty dict otherwise
StateIf(key, n) == IF n = 0 THEN <<>> ELSE Put(<<>>, key, n)

CalculateOsdCounters(osds) ==
    LET counters == CountOsds([total |-> Len(osds), not_up_not_in |-> 0, not_up_in |-> 0,
                               up_not_in |-> 0, up_in |-> 0], osds, 1)
        warn_count == WarnCount(counters)
        warn_up == StateIf("up/out", counters.up_not_in)
        warn_states == IF counters.not_up_in > 0
                       THEN Put(warn_up, "down/in", counters.not_up_in)
                       ELSE warn_up
    IN [ok |-> [count |-> counters.up_in, states |-> StateIf("up/in", counters.up_in)],
        warn |-> [count |-> warn_count,
                  states |-> IF warn_count = 0 THEN <<>> ELSE warn_states],
        critical |-> [count |-> counters.not_up_not_in,
                      states |-> StateIf("down/out", counters.not_up_not_in)]]

InitOsd ==
    /\ arg \in OsdFlagLists
    /\ ret = <<>>
    /\ called = FALSE
    /\ RegistryIdle /\ HandleIdle /\ PoolsIdle

OsdCountersCall ==
    /\ ~called
    /\ ret' = CalculateOsdCounters(arg)
    /\ called' = TRUE
    /\ UNCHANGED <<arg, regVars, handleVars, poolVars>>

NextOsd == OsdCountersCall

----------------------------------------------------------------------------
(* _calculate_pg_counters *)

MaxPgStates == 2

\* a label is a string without '+'; the class sets hold labels
Label(a) == <<a>>

CRIT_STATES == {Label("stale"), Label("down"), Label("peering"), Label("inconsistent"),
                Label("incomplete")}
WARN_STATES == {Label("creating"), Label("recovery_wait"), Label("recovering"),
                Label("replay"), Label("splitting"), Label("degraded"), Label("remapped"),
                Label("scrubbing"), Label("repair"), Label("wait_backfill"),
                Label("backfilling"), Label("backfill_toofull")}
OKAY_STATES == {Label("active"), Label("clean")}

\* s.lower(), on the atoms the state names are made of
LowerAtom(a) ==
    CASE a = "Stale" -> "stale"
      [] a = "Active" -> "active"
      [] OTHER -> a

Lower(s) == [i \in DOMAIN s |-> LowerAtom(s[i])]

\* map(lambda s: s.lower(), state_name.split("+"))
LowerLabels(state_name) ==
    LET labels == Split(state_name, <<"+">>)
    IN [i \in DOMAIN labels |-> Lower(labels[i])]

\* _pg_counter_helper: hit is its return value, stats the list it updates
PgCounterHelper(states, classifier, count, stats) ==
    LET matched_states == classifier \cap {states[i] : i \in DOMAIN states}
    IN IF Cardinality(matched_states) > 0
       THEN [hit |-> TRUE,
             stats |-> [count |-> stats.count + count,
                        states |-> [l \in DOMAIN stats.states \cup matched_states |->
                                      (IF l \in DOMAIN stats.states
                                       THEN stats.states[l] ELSE 0)
                                      + (IF l \in matched_states THEN count ELSE 0)]]]
       ELSE [hit |-> FALSE, stats |-> stats]

\* a body of the loop that asks every classifier, whatever the earlier ones said
ClassifyPgEvery(b, states, count) ==
    [crit |-> PgCounterHelper(states, CRIT_STATES, count, b.crit).stats,
     warn |-> PgCounterHelper(states, WARN_STATES, count, b.warn).stats,
     ok |-> PgCounterHelper(states, OKAY_STATES, count, b.ok).stats]

\* the if/elif chain of the loop body
ClassifyPg(b, states, count) ==
    LET c == PgCounterHelper(states, CRIT_STATES, count, b.crit)
        w == PgCounterHelper(states, WARN_STATES, count, b.warn)
        o == PgCounterHelper(states, OKAY_STATES, count, b.ok)
    IN IF c.hit THEN [b EXCEPT !.crit = c.stats]
       ELSE IF w.hit THEN [b EXCEPT !.warn = w.stats]
       ELSE IF o.hit THEN [b EXCEPT !.ok = o.stats]
       ELSE b

\* the for loop of _calculate_pg_counters from the k-th entry on
RECURSIVE PgLoop(_, _, _)
PgLoop(b, pgs_by_state, k) ==
    IF k > Len(pgs_by_state)
    THEN b
    ELSE PgLoop(ClassifyPg(b, LowerLabels(pgs_by_state[k].state_name),
                           pgs_by_state[k].count),
                pgs_by_state, k + 1)

NoStats == [count |-> 0, states |-> <<>>]

CalculatePgCounters(pgs_by_state) ==
    LET b == PgLoop([crit |-> NoStats, warn |-> NoStats, ok |-> NoStats], pgs_by_state, 1)
    IN [ok |-> b.ok, warn |-> b.warn, critical |-> b.crit]

\* the atoms the state names of the inputs are joined from
PgLabels == {"down", "Stale", "degraded", "Active", "weird"}

PgStateNames ==
    {<<a>> : a \in PgLabels}
    \cup {<<a, "+", b>> : a, b \in PgLabels}
    \cup {<<"stale", "+", "active", "+", "clean">>,
          <<"active", "+", "recovering", "+", "degraded">>}

PgCounts == {1, 2}

\* the pgs_by_state lists of the status document
PgsByState ==
    UNION {[1..k -> [state_name : PgStateNames, count : PgCounts]] : k \in 0..MaxPgStates}

InitPg ==
    /\ arg \in PgsByState
    /\ ret = <<>>
    /\ called = FALSE
    /\ RegistryIdle /\ HandleIdle /\ PoolsIdle

PgCountersCall ==
    /\ ~called
    /\ ret' = CalculatePgCounters(arg)
    /\ called' = TRUE
    /\ UNCHANGED <<arg, regVars, handleVars, poolVars>>

NextPg == PgCountersCall

----------------------------------------------------------------------------
(* try_mon_connect *)

_MON_ADDR_IGNORES ==
    {<<"0", ".", "0", ".", "0", ".", "0">>,
     <<"0", ":", "0", ":", "0", ":", "0", ":", "0", ":", "0", ":", "0", ":", "0">>,
     <<":", ":">>}

\* the atoms that are written with decimal digits only
DigitAtoms == {"0", "1", "10", "168", "192", "1234", "6789", "6800"}

\* the length of the run of digits that starts at position i
RECURSIVE DigitRun(_, _)
DigitRun(s, i) ==
    IF i <= Len(s) /\ s[i] \in DigitAtoms THEN 1 + DigitRun(s, i + 1) ELSE 0

\* re.match of a pattern of literals and \d+ from position i: the positions
\* after each element of the pattern, cut short by a 0 where the match fails
RECURSIVE MatchSteps(_, _, _, _)
MatchSteps(s, i, pat, k) ==
    IF k > Len(pat)
    THEN <<>>
    ELSE LET n == IF pat[k] = "\\d+"
                  THEN DigitRun(s, i)
                  ELSE IF i <= Len(s) /\ s[i] = pat[k] THEN 1 ELSE 0
         IN IF n = 0 THEN <<0>> ELSE <<i + n>> \o MatchSteps(s, i + n, pat, k + 1)

NoMatch == [ok |-> FALSE, addr |-> <<>>, port |-> <<>>]

\* the groups addr and port of a match of n steps: addr runs from position
\* first to the step ia, port from the step ip to the next step
Groups(s, steps, n, first, ia, ip) ==
    IF Len(steps) = n /\ steps[n] # 0
    THEN [ok |-> TRUE, addr |-> SubSeq(s, first, steps[ia] - 1),
          port |-> SubSeq(s, steps[ip], steps[ip + 1] - 1)]
    ELSE NoMatch

\* re.match(_IPV4_RE, addr)
MatchIpv4(s) ==
    Groups(s, MatchSteps(s, 1, <<"\\d+", ".", "\\d+", ".", "\\d+", ".", "\\d+",
                                 ":", "\\d+", "/">>, 1), 10, 1, 7, 8)

\* whether \[(\S+)\]:(\d+)\/ matches with the group addr ending at position j
Ipv6EndsAt(s, j) ==
    /\ s[1] = "["
    /\ \A i \in 2..j : s[i] # " "
    /\ LET steps == MatchSteps(s, j + 1, <<"]", ":", "\\d+", "/">>, 1)
       IN Len(steps) = 4 /\ steps[4] # 0

\* re.match(_IPV6_RE, addr): \S+ is greedy, so the longest group wins
MatchIpv6(s) ==
    LET ends == {j \in 2..Len(s) : Ipv6EndsAt(s, j)}
    IN IF s = <<>> \/ ends = {}
       THEN NoMatch
       ELSE Groups(s, <<(CHOOSE j \in ends : \A e \in ends : e <= j) + 1>>
                      \o MatchSteps(s, (CHOOSE j \in ends : \A e \in ends : e <= j) + 1,
                                    <<"]", ":", "\\d+", "/">>, 1),
                   5, 2, 1, 3)

\* a probe that connects to whatever address it parsed
MonAddrIgnoredNever(addr) == FALSE

\* addr in _MON_ADDR_IGNORES
MonAddrIgnored(addr) == addr \in _MON_ADDR_IGNORES

\* what the probe does with the match m: its return value and the calls of
\* socket.create_connection it made; connects says whether such a call returns
ProbeMatched(m, mon_timeout, connects) ==
    IF ~m.ok
    THEN [value |-> FALSE, attempts |-> <<>>]
    ELSE IF MonAddrIgnored(m.addr)
         THEN [value |-> FALSE, attempts |-> <<>>]
         ELSE [value |-> connects,
               attempts |-> << [addr |-> m.addr, port |-> m.port,
                                timeout |-> mon_timeout] >>]

\* the first of the two patterns that matches
FirstMatch(m4, addr) == IF m4.ok THEN m4 ELSE MatchIpv6(addr)

TryMonConnect(mon, mon_timeout, connects) ==
    ProbeMatched(FirstMatch(MatchIpv4(mon.addr), mon.addr), mon_timeout, connects)

Zero4 == <<"0", ".", "0", ".", "0", ".", "0">>
Zero6 == <<"0", ":", "0", ":", "0", ":", "0", ":", "0", ":", "0", ":", "0", ":", "0">>

MonPorts == Ports \cup {<<"6789">>}
MonTimeouts == {1, 5}

\* monitors of a monmap with the address they were written from, and what
\* a connection to them would do
MonProbes ==
    {[form |-> "ipv4", ip |-> ip, addr |-> Ip4Form(ip, port, nonce),
      timeout |-> t, connects |-> c] :
        ip \in Ip4s \cup {Zero4, Zero6}, port \in MonPorts, nonce \in Nonces,
        t \in MonTimeouts, c \in BOOLEAN}
    \cup {[form |-> "ipv6", ip |-> ip, addr |-> Ip6Form(ip, port, nonce),
           timeout |-> t, connects |-> c] :
        ip \in Ip6s \cup {Zero4, Zero6}, port \in MonPorts, nonce \in Nonces,
        t \in MonTimeouts, c \in BOOLEAN}

InitMon ==
    /\ arg \in MonProbes
    /\ ret = <<>>
    /\ called = FALSE
    /\ RegistryIdle /\ HandleIdle /\ PoolsIdle

TryMonConnectCall ==
    /\ ~called
    /\ ret' = TryMonConnect(arg, arg.timeout, arg.connects)
    /\ called' = TRUE
    /\ UNCHANGED <<arg, regVars, handleVars, poolVars>>

NextMon == TryMonConnectCall

----------------------------------------------------------------------------
(* _calculate_mon_counters on a status document *)

MaxMons == 3

\* no monitor would be taken as a member of the quorum
InQuorumNever(rank, quorum) == FALSE

\* rank in quorum
InQuorum(rank, quorum) == \E i \in DOMAIN quorum : quorum[i] = rank

\* the loop over the monitors from the k-th on; c holds the three counts and
\* the calls of try_mon_connect made so far, reach[k] says whether a
\* connection to the k-th monitor would be established
RECURSIVE CountMons(_, _, _, _, _, _)
CountMons(c, mons, quorum, mon_timeout, reach, k) ==
    IF k > Len(mons)
    THEN c
    ELSE IF InQuorum(mons[k].rank, quorum)
         THEN CountMons([c EXCEPT !.ok = @ + 1], mons, quorum, mon_timeout, reach, k + 1)
         ELSE CountMons(
                  [c EXCEPT
                      !.warn = IF TryMonConnect(mons[k], mon_timeout, reach[k]).value
                               THEN @ + 1 ELSE @,
                      !.crit = IF TryMonConnect(mons[k], mon_timeout, reach[k]).value
                               THEN @ ELSE @ + 1,
                      !.probes = Append(@, [rank |-> mons[k].rank,
                                            probe |-> TryMonConnect(mons[k], mon_timeout,
                                                                    reach[k])])],
                  mons, quorum, mon_timeout, reach, k + 1)

\* the dict the function returns, with the calls of try_mon_connect it made
MonCounters(c) ==
    [ok |-> [count |-> c.ok, states |-> StateIf("in", c.ok)],
     warn |-> [count |-> c.warn, states |-> StateIf("up", c.warn)],
     critical |-> [count |-> c.crit, states |-> StateIf("out", c.crit)],
     probes |-> c.probes]

CalculateMonCounters(status, mon_timeout, reach) ==
    MonCounters(CountMons([ok |-> 0, warn |-> 0, crit |-> 0, probes |-> <<>>],
                          status.monmap.mons, status.quorum, mon_timeout, reach, 1))

\* monitors of a monmap: an address that parses and accepts or refuses the
\* connection, the unspecified address, and an address that matches neither
\* pattern; reach says what a connection to the monitor would do
MonKinds ==
    {[addr |-> <<"10", ".", "0", ".", "0", ".", "1", ":", "6789", "/", "0">>, reach |-> TRUE],
     [addr |-> <<"10", ".", "0", ".", "0", ".", "1", ":", "6789", "/", "0">>, reach |-> FALSE],
     [addr |-> <<"0", ".", "0", ".", "0", ".", "0", ":", "6789", "/", "0">>, reach |-> TRUE],
     [addr |-> <<"mon", "/", "0">>, reach |-> TRUE]}

\* the elements of a set of ranks in ascending order
RECURSIVE Ascending(_)
Ascending(ranks) ==
    IF ranks = {}
    THEN <<>>
    ELSE LET r == CHOOSE x \in ranks : \A y \in ranks : x <= y
         IN <<r>> \o Ascending(ranks \ {r})

\* status documents of up to MaxMons monitors with ranks from 0: any subset
\* of the ranks is the quorum
StatusDocs ==
    UNION {{[status |-> [monmap |-> [mons |-> [k \in 1..n |->
                                                 [rank |-> k - 1, name |-> MonNames[k],
                                                  addr |-> m[k].addr]]],
                         quorum |-> Ascending(q)],
             reach |-> [k \in 1..n |-> m[k].reach]] :
               m \in [1..n -> MonKinds], q \in SUBSET (0..(n - 1))} : n \in 0..MaxMons}

InitMonCount ==
    /\ arg \in StatusDocs
    /\ ret = <<>>
    /\ called = FALSE
    /\ RegistryIdle /\ HandleIdle /\ PoolsIdle

MonCountersCall ==
    /\ ~called
    /\ ret' = CalculateMonCounters(arg.status, 5, arg.reach)
    /\ called' = TRUE
    /\ UNCHANGED <<arg, regVars, handleVars, poolVars>>

NextMonCount == MonCountersCall

----------------------------------------------------------------------------
(* _populate_pools on the Pool table *)

MaxPoolCalls == 2

PoolClusters == {1, 2}
PoolIds == {0, 1}

\* Pool.objects.filter(~Q(pool_id__in=[p['pool'] for p in osd_map_pools]),
\*                     cluster_id=self.cluster.id)
DeadPools(rows, c, osd_map_pools) ==
    {r \in rows : /\ r.cluster = c
                  /\ \A k \in DOMAIN osd_map_pools : osd_map_pools[k].pool # r.pool_id}

\* stats = None
StatsNone == [stats |-> "None"]

\* the inner loop over df_pools from the k-th entry on: the last entry of
\* the pool's id gives the stats
RECURSIVE FindStats(_, _, _, _)
FindStats(stats, df_pools, pool_id, k) ==
    IF k > Len(df_pools)
    THEN stats
    ELSE FindStats(IF df_pools[k].id = pool_id THEN df_pools[k].stats ELSE stats,
                   df_pools, pool_id, k + 1)

\* attrs = dict(name=..., quota_max_bytes=..., quota_max_objects=...,
\*              used_bytes=..., used_objects=...)
PoolAttrs(pool, stats) ==
    [name |-> pool.pool_name,
     quota_max_bytes |-> pool.quota_max_bytes,
     quota_max_objects |-> pool.quota_max_bytes,
     used_bytes |-> stats.bytes_used,
     used_objects |-> stats.objects]

\* a row with the attrs written to it
WithAttrs(r, attrs) ==
    [r EXCEPT !.name = attrs.name,
              !.quota_max_bytes = attrs.quota_max_bytes,
              !.quota_max_objects = attrs.quota_max_objects,
              !.used_bytes = attrs.used_bytes,
              !.used_objects = attrs.used_objects]

\* a row would be created whatever the update matched
NothingUpdatedEver(rows, c, pool_id) == TRUE

\* updated == 0
NothingUpdated(rows, c, pool_id) ==
    ~\E r \in rows : r.cluster = c /\ r.pool_id = pool_id

\* lines 179-181 on the table t: rows and the number of ids given out
UpdateOrCreate(t, c, pool_id, attrs) ==
    [rows |-> {IF r.cluster = c /\ r.pool_id = pool_id THEN WithAttrs(r, attrs) ELSE r :
                    r \in t.rows}
              \cup (IF NothingUpdated(t.rows, c, pool_id)
                    THEN {WithAttrs([id |-> t.ids + 1, cluster |-> c, pool_id |-> pool_id,
                                     name |-> <<>>, quota_max_bytes |-> 0,
                                     quota_max_objects |-> 0, used_bytes |-> 0,
                                     used_objects |-> 0], attrs)}
                    ELSE {}),
     ids |-> IF NothingUpdated(t.rows, c, pool_id) THEN t.ids + 1 ELSE t.ids]

\* the loop over osd_map_pools from the k-th pool on
RECURSIVE PoolLoop(_, _, _, _, _)
PoolLoop(t, c, osd_map_pools, df_pools, k) ==
    IF k > Len(osd_map_pools)
    THEN t
    ELSE IF FindStats(StatsNone, df_pools, osd_map_pools[k].pool, 1) = StatsNone
         THEN PoolLoop(t, c, osd_map_pools, df_pools, k + 1)
         ELSE PoolLoop(UpdateOrCreate(t, c, osd_map_pools[k].pool,
                                      PoolAttrs(osd_map_pools[k],
                                                FindStats(StatsNone, df_pools,
                                                          osd_map_pools[k].pool, 1))),
                       c, osd_map_pools, df_pools, k + 1)

\* _populate_pools for cluster c on the table t
_populate_pools(t, c, osd_map_pools, df_pools) ==
    PoolLoop([t EXCEPT !.rows = @ \ DeadPools(@, c, osd_map_pools)],
             c, osd_map_pools, df_pools, 1)

PoolNames == <<<<"data">>, <<"rbd">>>>

\* the 'pools' lists of an OSD map: any of the pools, by ascending id, with
\* a quota or none
RECURSIVE ListedPools(_, _)
ListedPools(f, ids) ==
    IF ids = {}
    THEN <<>>
    ELSE LET i == CHOOSE x \in ids : \A y \in ids : x <= y
         IN (IF f[i] < 0
             THEN <<>>
             ELSE <<[pool |-> i, pool_name |-> PoolNames[i + 1],
                     quota_max_bytes |-> f[i], quota_max_objects |-> 5]>>)
            \o ListedPools(f, ids \ {i})

OsdMapPools == {ListedPools(f, PoolIds) : f \in [PoolIds -> {-1, 0, 10}]}

\* the 'pools' lists of a df document: statistics of any of the pools
RECURSIVE ListedStats(_, _)
ListedStats(f, ids) ==
    IF ids = {}
    THEN <<>>
    ELSE LET i == CHOOSE x \in ids : \A y \in ids : x <= y
         IN (IF f[i] < 0
             THEN <<>>
             ELSE <<[id |-> i, stats |-> [bytes_used |-> f[i], objects |-> 3]]>>)
            \o ListedStats(f, ids \ {i})

DfPools == {ListedStats(f, PoolIds) : f \in [PoolIds -> {-1, 1, 2}]}

InitPools == PoolsIdle /\ RegistryIdle /\ HandleIdle /\ CallIdle

\* the store after a _populate_pools call that ended with the table t
PoolsBecome(c, osd_map_pools, df_pools, t) ==
    /\ pools' = t.rows
    /\ poolsLast' = [n |-> poolsLast.n + 1, cluster |-> c,
                     osd_map_pools |-> osd_map_pools, df_pools |-> df_pools,
                     before |-> pools, ids |-> t.ids]

PopulatePoolsCall(c, osd_map_pools, df_pools) ==
    /\ poolsLast.n < MaxPoolCalls
    /\ PoolsBecome(c, osd_map_pools, df_pools,
                   _populate_pools([rows |-> pools, ids |-> poolsLast.ids],
                                   c, osd_map_pools, df_pools))
    /\ UNCHANGED <<regVars, handleVars, callVars>>

NextPools ==
    \E c \in PoolClusters, osd_map_pools \in OsdMapPools, df_pools \in DfPools :
        PopulatePoolsCall(c, osd_map_pools, df_pools)

----------------------------------------------------------------------------
(* Specifications *)

Init == RegistryInit /\ HandleIdle /\ CallIdle /\ PoolsIdle
Spec == Init /\ [][Next]_vars

InitHandle == HandleInit /\ RegistryIdle /\ CallIdle /\ PoolsIdle
\* handle is sequential code in which every call returns or raises: a step
\* that can be taken is taken
SpecWide == Init /\ [][NextWide]_vars

SpecNames == Init /\ [][NextNames]_vars

SpecHandle == InitHandle /\ [][NextHandle]_vars /\ WF_vars(NextHandle)

SpecPg == InitPg /\ [][NextPg]_vars

SpecMon == InitMon /\ [][NextMon]_vars

SpecMonCount == InitMonCount /\ [][NextMonCount]_vars

SpecPools == InitPools /\ [][NextPools]_vars

SpecAddr == InitAddr /\ [][NextAddr]_vars

SpecOsd == InitOsd /\ [][NextOsd]_vars

----------------------------------------------------------------------------
(* Properties of the registry *)

\* the service address OSD n is observed at in the document osds, Absent if
\* it is not in it
OsdAddrIn(osds, n) ==
    IF \E k \in DOMAIN osds : osds[k].osd = n
    THEN ServiceAddr(osds[CHOOSE k \in DOMAIN osds : osds[k].osd = n].public_addr)
    ELSE Absent

\* the service addresses of the last pass's documents
ObservedAddrs(rec) ==
    {ServiceAddr(rec.osds[k].public_addr) : k \in DOMAIN rec.osds}
        \cup {ServiceAddr(rec.mons[k].addr) : k \in DOMAIN rec.mons}

OsdRows(sts, c, n) ==
    {x \in sts : x.cluster = c /\ x.type = OSD /\ x.service_id = n}

\* C1: a completed reconcile pass that follows a completed pass of the same
\* cluster with the same osd and monitor documents creates no row, deletes
\* no row and leaves both tables as the first pass left them.
C1_ReconcileIdempotent ==
    [][(passes' = passes + 1 /\ last'.repeat)
          => (servers' = servers /\ statuses' = statuses /\ ~last'.changed)]_vars

\* C2: when OSD n is observed at address A in one completed pass and at a
\* different address B in the next completed pass of the cluster, then after
\* the second pass there is exactly one OSD row of identity n, it is on the
\* server at B, and the server at A is gone unless a service is observed at A.
C2_MigrationKeepsOneRecord ==
    [][\A n \in OsdIds :
          LET a == OsdAddrIn(last.osds, n)
              b == OsdAddrIn(last'.osds, n)
              c == last'.cluster
          IN (/\ passes' = passes + 1
              /\ ~last.raised /\ ~last'.raised
              /\ last.cluster = c
              /\ a # Absent /\ b # Absent /\ a # b)
             => /\ Cardinality(OsdRows(statuses', c, n)) = 1
                /\ \A x \in OsdRows(statuses', c, n) : x.addr = b
                /\ a \notin ObservedAddrs(last')
                      => ~(\E s \in servers' : s.cluster = c /\ s.addr = a)]_vars

\* C3: no two ServiceStatus rows of one cluster have the same kind and the
\* same identity, in every state between reconcile passes (completed or
\* aborted by a failed request).
C3_OneStatusPerService ==
    \A x, y \in statuses :
        (x.cluster = y.cluster /\ x.type = y.type /\ x.service_id = y.service_id)
            => x.addr = y.addr

\* a completed pass in which monitor 0 was observed at another server than
\* the one its row was on before the pass
C3_MonitorMoved ==
    /\ ~last.raised
    /\ <<MON, 0>> \in last.moved
    /\ \E x \in statuses : x.type = MON /\ x.service_id = 0

\* C4: after a completed reconcile pass every Server row of the cluster is
\* referenced by at least one ServiceStatus row.
C4_NoServerWithoutService ==
    ~last.raised
        => \A s \in servers :
              s.cluster = last.cluster
                  => \E x \in statuses : x.cluster = s.cluster /\ x.addr = s.addr

\* the rows of the store that one _register_service call for the service s
\* of cluster c deletes
DeletedByRegistering(c, s) ==
    statuses \ RegisterService(OldRecords(servers, statuses, c), c, s.addr, s.type,
                               s.service_id, s.name,
                               [tree |-> TreeLocal, dns |-> [a \in ServiceAddrs |-> LookupFails],
                                fail |-> "none"]).statuses

\* the services an osd document and a monitor document list
ServicesOf(osds, mons) == OsdServices(osds) \o MonServices(mons)

\* C14: registering a service deletes only rows of the same cluster, the
\* same kind and the same identity that are attached to another server; a
\* row of the other kind is never deleted.
C14_CleanupOnlySameKind ==
    \A c \in Clusters, osds \in OsdMaps, mons \in MonMaps :
        \A k \in DOMAIN ServicesOf(osds, mons) :
            \A x \in DeletedByRegistering(c, ServicesOf(osds, mons)[k]) :
                /\ x.cluster = c
                /\ x.type = ServicesOf(osds, mons)[k].type
                /\ x.service_id = ServicesOf(osds, mons)[k].service_id
                /\ x.addr # ServicesOf(osds, mons)[k].addr

\* the services of the documents of the pass rec, each with its kind, its
\* identity and the short address of the address it was observed at
Observed(rec) ==
    {[type |-> OSD, service_id |-> rec.osds[k].osd,
      addr |-> ShortAddr(rec.osds[k].public_addr)] : k \in DOMAIN rec.osds}
    \cup {[type |-> MON, service_id |-> rec.mons[k].rank,
           addr |-> ShortAddr(rec.mons[k].addr)] : k \in DOMAIN rec.mons}

\* C15: after a completed reconcile pass every observed OSD and monitor has
\* a ServiceStatus row of its kind and identity on the Server at its short
\* address.
C15_ObservedHaveRecords ==
    ~last.raised
        => \A o \in Observed(last) :
              /\ \E s \in servers : s.cluster = last.cluster /\ s.addr = o.addr
              /\ \E x \in statuses : /\ x.cluster = last.cluster
                                     /\ x.type = o.type
                                     /\ x.service_id = o.service_id
                                     /\ x.addr = o.addr

\* C16: after a completed reconcile pass every ServiceStatus row of the
\* cluster is that of a service observed in the pass, at its short address,
\* and every Server row of the cluster has the short address of an observed
\* service.
C16_OnlyObservedRemain ==
    ~last.raised
        => /\ \A x \in statuses :
                 x.cluster = last.cluster
                     => [type |-> x.type, service_id |-> x.service_id, addr |-> x.addr]
                            \in Observed(last)
           /\ \A s \in servers :
                 s.cluster = last.cluster
                     => \E o \in Observed(last) : o.addr = s.addr

\* C17: a reconcile pass of one cluster leaves the Server rows and the
\* ServiceStatus rows of every other cluster as they were.
C17_OtherClustersUntouched ==
    [][passes' = passes + 1
          => \A c \in WideClusters \ {last'.cluster} :
                /\ {s \in servers' : s.cluster = c} = {s \in servers : s.cluster = c}
                /\ {x \in statuses' : x.cluster = c} = {x \in statuses : x.cluster = c}]_vars

\* C18: after a completed reconcile pass the rows of an observed service
\* are on the Server whose address is the short address of the service's
\* raw address, for 'ip:port/nonce' and for '[ip]:port/nonce'.
C18_ServerAtShortAddress ==
    ~last.raised
        => \A x \in statuses, o \in Observed(last) :
              (x.cluster = last.cluster /\ x.type = o.type /\ x.service_id = o.service_id)
                  => x.addr = o.addr

\* the row of the server s after the step, if it has one
SameServer(s, t) == t.cluster = s.cluster /\ t.addr = s.addr

\* C19: a Server's hostname, once it is not null, is changed by no
\* registration and no reconcile pass for as long as the Server row exists.
C19_HostnameSticky ==
    [][\A s \in servers : \A t \in servers' :
          (SameServer(s, t) /\ s.hostname # None) => t.hostname = s.hostname]_vars

\* osd 0 has moved to a server that keeps the hostname localhost in a pass
\* whose topology would name the osd's host node1
C19_BetterNameIgnored ==
    /\ ~last.raised
    /\ last.tree = TreeNode1
    /\ <<OSD, 0>> \in last.moved
    /\ \E x \in statuses : /\ x.type = OSD /\ x.service_id = 0
                           /\ \E s \in servers : /\ SameServer(s, x)
                                                 /\ s.hostname = Localhost

\* C20: a Server's display name, once it is not null, is changed by no
\* later registration of a service at that server while the row exists.
C20_NameNeverOverwritten ==
    [][\A s \in servers : \A t \in servers' :
          (SameServer(s, t) /\ s.name # None) => t.name = s.name]_vars

\* the services of the list that are at the server s and had no row there
\* before the pass
NewlyAt(s, services) ==
    {k \in DOMAIN services :
        /\ services[k].addr = s.addr
        /\ ~\E x \in statuses : /\ SameServer(s, x)
                                /\ x.type = services[k].type
                                /\ x.service_id = services[k].service_id}

\* the names of the host nodes other than localhost that have the osd
\* below them in the tree
RECURSIVE Below(_, _, _)
Below(tree, node, osdName) ==
    \/ node.type = CRUSH_OSD_TYPE /\ node.name = osdName
    \/ /\ node.type # CRUSH_OSD_TYPE
       /\ \E j \in DOMAIN node.children : \E k \in DOMAIN tree :
             tree[k].id = node.children[j] /\ Below(tree, tree[k], osdName)

TopologyHosts(tree, osdName) ==
    {tree[k].name : k \in {j \in DOMAIN tree : /\ tree[j].type = CRUSH_HOST_TYPE
                                               /\ tree[j].name # Localhost
                                               /\ Below(tree, tree[j], osdName)}}

\* topology host, else reverse lookup, else the literal localhost
OsdChain(tree, osdName, lookup) ==
    IF TopologyHosts(tree, osdName) # {}
    THEN CHOOSE h \in TopologyHosts(tree, osdName) : TRUE
    ELSE IF ReverseDns(lookup) # None THEN ReverseDns(lookup) ELSE Localhost

\* the server row t of the pass's cluster had no hostname when the pass began
Unnamed(t) ==
    /\ t.cluster = last'.cluster
    /\ \A s \in servers : SameServer(s, t) => s.hostname = None

\* C21: in a completed pass, a Server without hostname on which an OSD
\* service is newly created gets as hostname the topology host of the OSD
\* unless that is missing or localhost, else the reverse lookup result, else
\* 'localhost', and its name equals the hostname; when only a monitor is
\* newly created there, a successful lookup gives hostname and name, and a
\* failed one leaves the hostname unset and names the server after the monitor.
C21_FallbackChain ==
    [][~last'.raised =>
        \A t \in servers' : Unnamed(t) =>
          LET newOsds == NewlyAt(t, OsdServices(last'.osds))
              newMons == NewlyAt(t, MonServices(last'.mons))
              d == ReverseDns(last'.dns[t.addr])
          IN IF newOsds # {}
             THEN LET first == CHOOSE k \in newOsds : \A j \in newOsds : k <= j
                  IN /\ t.hostname = OsdChain(last'.tree,
                                               OsdServices(last'.osds)[first].name,
                                               last'.dns[t.addr])
                     /\ t.name = t.hostname
             ELSE newMons # {} =>
                    IF d # None
                    THEN t.hostname = d /\ t.name = d
                    ELSE /\ t.hostname = None
                         /\ t.name \in {MonServices(last'.mons)[k].name : k \in newMons}
                         /\ t.name # Localhost]_vars

\* one completed pass named a server after the topology host of its osd and
\* another, which has only a monitor and no reverse name, after the monitor
C21_BothBranches ==
    /\ ~last.raised
    /\ last.tree = TreeNode1
    /\ \E t \in servers : t.hostname = <<"node1">> /\ t.name = <<"node1">>
    /\ \E t \in servers : t.hostname = None /\ t.name = <<"mon", ".", "a">>

\* C25: after a pass whose reconcile completed, every osd of the osd map
\* was given a host by fixup_osd without a missing mapping, and that host is
\* the hostname of the Server at the osd's address when the Server has one
\* and the Server's address otherwise.
C25_OsdHostFromServer ==
    ~last.raised =>
        \A k \in DOMAIN last.osds :
            /\ last.hosts[k] # KeyError
            /\ \E s \in servers :
                  /\ s.cluster = last.cluster
                  /\ s.addr = ServiceAddr(last.osds[k].public_addr)
                  /\ last.hosts[k] = IF s.hostname # None THEN s.hostname ELSE s.addr

----------------------------------------------------------------------------
(* Properties of handle *)

\* the iteration of handle for the k-th cluster is over
Processed(k) == idx > k

\* C5: a run of handle ends having attempted the refresh of every cluster of
\* the list, whichever refreshes failed and whichever bookkeeping saves
\* failed.
C5_EveryClusterAttempted ==
    <>(hpc = "done" /\ \A k \in ClusterList : result[k].how # "pending")

\* the run has ended although the refresh of the first cluster failed and
\* the save of its bookkeeping failed too
C5_RunEndsAfterFailures ==
    /\ hpc = "done"
    /\ result[1].how \in {"request", "other"}
    /\ ~saved[1]
    /\ \A k \in ClusterList : result[k].how # "pending"

\* C6: after the iteration of a cluster whose pass was aborted by a failed
\* telemetry request, the stored snapshot fields have the values they had
\* before the pass.
C6_FailedPassKeepsSnapshot ==
    \A k \in ClusterList :
        (Processed(k) /\ result[k].how \in {"request", "other"})
            => \A f \in SnapshotFields : db[k][f] = db0[k][f]

\* C7: after the iteration of a cluster the attempt time of its object is
\* the time of the pass; its success time is the time of the pass exactly
\* when the pass raised nothing, and is the previous success time otherwise;
\* a bookkeeping save that succeeded stored both.
C7_Timestamps ==
    \A k \in ClusterList :
        Processed(k)
            => /\ mem[k].cluster_update_attempt_time = result[k].time
               /\ (mem[k].cluster_update_time = result[k].time) <=> (result[k].how = "ok")
               /\ result[k].how # "ok"
                     => mem[k].cluster_update_time = db0[k].cluster_update_time
               /\ saved[k]
                     => /\ db[k].cluster_update_attempt_time = result[k].time
                        /\ db[k].cluster_update_time = mem[k].cluster_update_time

\* one cluster's pass failed, another's succeeded, and both were saved
C7_FailedAndSucceeded ==
    \E j, k \in ClusterList :
        /\ Processed(j) /\ Processed(k)
        /\ saved[j] /\ saved[k]
        /\ result[j].how = "request"
        /\ result[k].how = "ok"
        /\ result[j].time > Earlier /\ result[k].time > Earlier

\* C22: after the iteration of a cluster, the error message of its object is
\* empty and the client-error flag false when the pass raised nothing,
\* whatever the row held before; when the pass raised, the message is set and
\* the flag is true exactly when the exception was a RequestException; a
\* bookkeeping save that succeeded stored both fields.
C22_ErrorFieldsFollowOutcome ==
    \A k \in ClusterList :
        Processed(k)
            => /\ result[k].how = "ok"
                     => /\ mem[k].cluster_update_error_msg = NoMsg
                        /\ ~mem[k].cluster_update_error_isclient
               /\ result[k].how # "ok"
                     => /\ mem[k].cluster_update_error_msg # NoMsg
                        /\ mem[k].cluster_update_error_isclient
                              <=> (result[k].how = "request")
               /\ saved[k]
                     => /\ db[k].cluster_update_error_msg
                              = mem[k].cluster_update_error_msg
                        /\ db[k].cluster_update_error_isclient
                              = mem[k].cluster_update_error_isclient

\* two clusters whose rows held the error of a failed request: the pass of
\* one succeeded, the pass of the other raised an exception that is no
\* RequestException, and both were saved
C22_OldErrorsReplaced ==
    \E j, k \in ClusterList :
        /\ Processed(j) /\ Processed(k)
        /\ saved[j] /\ saved[k]
        /\ db0[j].cluster_update_error_isclient
        /\ db0[k].cluster_update_error_isclient
        /\ result[j].how = "ok"
        /\ result[k].how = "other"

PopulateSteps == {"counters", "health", "osds_and_pgs", "pools", "space"}

\* C12: in every refresh pass the registry reconcile runs exactly once, and
\* it has completed before any populate step starts; a pass whose reconcile
\* raised runs no populate step.
C12_ReconcileOnceAndFirst ==
    /\ hpc \in PopulateSteps \cup {"save", "bookkeeping"} => ran # <<>>
    /\ ran # <<>> => ran[1].step = "servers"
    /\ \A i \in DOMAIN ran : i > 1 => ran[i].step \in PopulateSteps /\ ~ran[1].raised

\* a pass that ran the reconcile and then all five populate steps
C12_FullPass ==
    /\ hpc = "save"
    /\ Len(ran) = 6
    /\ {ran[i].step : i \in 2..6} = PopulateSteps

\* C13: within one refresh pass the client requests each endpoint from the
\* cluster API at most once, and every _query call for an endpoint returns
\* the document the first request for it was served.
C13_OneRequestPerEndpoint ==
    /\ \A i, j \in DOMAIN wire : wire[i] = wire[j] => i = j
    /\ \A i, j \in DOMAIN reads : reads[i][1] = reads[j][1] => reads[i][2] = reads[j][2]

\* the osd dump has been asked for by the reconcile and by three populate
\* steps, and the status three times by the counters
C13_RepeatedQueries ==
    /\ hpc = "save"
    /\ Cardinality({i \in DOMAIN reads : reads[i][1] = "osd/dump"}) = 4
    /\ Cardinality({i \in DOMAIN reads : reads[i][1] = "status"}) = 3

----------------------------------------------------------------------------
(* Properties of the pure functions *)

\* whether a state string has a label of the class, compared lower-cased
HasLabelOf(state_name, class) ==
    LET labels == Split(state_name, <<"+">>)
    IN \E i \in DOMAIN labels : Lower(labels[i]) \in class

\* the bucket the precedence critical > warn > ok gives a state string
BucketOf(state_name) ==
    IF HasLabelOf(state_name, CRIT_STATES) THEN "critical"
    ELSE IF HasLabelOf(state_name, WARN_STATES) THEN "warn"
    ELSE IF HasLabelOf(state_name, OKAY_STATES) THEN "ok"
    ELSE "none"

\* the sum of the counts of the entries whose state string belongs to a bucket
RECURSIVE CountsOf(_, _)
CountsOf(pgs_by_state, bucket) ==
    IF pgs_by_state = <<>>
    THEN 0
    ELSE (IF BucketOf(Head(pgs_by_state).state_name) = bucket
          THEN Head(pgs_by_state).count ELSE 0)
         + CountsOf(Tail(pgs_by_state), bucket)

\* C8: a state string with a critical label is counted under critical and
\* nowhere else, whatever warn or ok labels come with it; one with a warn
\* label and no critical label only under warn; one with ok labels only
\* under ok.
C8_PgPrecedence ==
    called => \A bucket \in {"critical", "warn", "ok"} :
                  ret[bucket].count = CountsOf(arg, bucket)

\* a critical label written with a capital next to an ok label, and a warn
\* label next to an ok label, have been counted
C8_MixedLabelsCounted ==
    /\ called
    /\ Len(arg) = 2
    /\ arg[1].state_name = <<"Stale", "+", "Active">>
    /\ arg[2].state_name = <<"degraded", "+", "Active">>
    /\ ret.critical.count = arg[1].count
    /\ ret.warn.count = arg[2].count
    /\ ret.ok.count = 0

\* the number of osds of the list that satisfy P
CountWhere(osds, P(_)) == Cardinality({k \in DOMAIN osds : P(osds[k])})

UpAndIn(o) == o.up # 0 /\ o.in # 0
OneOfUpIn(o) == (o.up # 0) # (o.in # 0)
NeitherUpNorIn(o) == o.up = 0 /\ o.in = 0

\* C9: the osd counters count every osd of the map once: up and in under
\* ok, exactly one of up and in under warn, neither under critical, so the
\* three counts add up to the number of osds.
C9_OsdCountsSumToTotal ==
    called
        => /\ ret.ok.count + ret.warn.count + ret.critical.count = Len(arg)
           /\ ret.ok.count = CountWhere(arg, UpAndIn)
           /\ ret.warn.count = CountWhere(arg, OneOfUpIn)
           /\ ret.critical.count = CountWhere(arg, NeitherUpNorIn)

\* counters of a map that has an osd of each of the four kinds
C9_AllFourKinds ==
    /\ called
    /\ ret.ok.count > 0 /\ ret.critical.count > 0
    /\ DOMAIN ret.warn.states = {"up/out", "down/in"}

\* C10: _short_addr returns the bare ip of 'ip:port/nonce' and of
\* '[ip]:port/nonce'.
C10_ShortAddrIsBareIp == called => ret = arg.ip

\* the bracketed example of the docstring's format has been shortened
C10_Ip6ExampleShortened ==
    /\ called
    /\ arg.raw = <<"[", "fe80", ":", ":", "1", "]", ":", "6800", "/", "0">>
    /\ ret = <<"fe80", ":", ":", "1">>

\* C11: a monitor whose address parses to one of the ignored values is
\* reported unreachable and no connection to it is attempted, whatever its
\* port and the timeout.
C11_IgnoredNeverConnected ==
    (called /\ arg.ip \in {Zero4, Zero6, <<":", ":">>})
        => ret.value = FALSE /\ ret.attempts = <<>>

\* the probes of 0.0.0.0:6789/0 and of [::]:6789/0 on a network where every
\* connection would succeed have returned
C11_UnspecifiedProbed ==
    /\ called
    /\ arg.connects
    /\ arg.addr \in {<<"0", ".", "0", ".", "0", ".", "0", ":", "6789", "/", "0">>,
                     <<"[", ":", ":", "]", ":", "6789", "/", "0">>}
    /\ ret.value = FALSE

\* the positions of the monitors of arg whose rank is not in the quorum list
MonsOutsideQuorum ==
    {k \in DOMAIN arg.status.monmap.mons :
        \A i \in DOMAIN arg.status.quorum :
            arg.status.quorum[i] # arg.status.monmap.mons[k].rank}

\* the calls of try_mon_connect for the monitor of a rank
ProbesOf(rank) == {i \in DOMAIN ret.probes : ret.probes[i].rank = rank}

\* C23: the three counts add up to the number of monitors of the monmap;
\* ok counts the monitors whose rank is in the quorum, none of which is
\* probed; every other monitor is probed exactly once, warn counts those
\* whose probe returned true and critical those whose probe returned false.
C23_MonBuckets ==
    called =>
        LET mons == arg.status.monmap.mons
            out == MonsOutsideQuorum
        IN /\ ret.ok.count + ret.warn.count + ret.critical.count = Len(mons)
           /\ ret.ok.count = Len(mons) - Cardinality(out)
           /\ \A k \in DOMAIN mons :
                 Cardinality(ProbesOf(mons[k].rank)) = IF k \in out THEN 1 ELSE 0
           /\ ret.warn.count
                 = Cardinality({i \in DOMAIN ret.probes : ret.probes[i].probe.value})
           /\ ret.critical.count
                 = Cardinality({i \in DOMAIN ret.probes : ~ret.probes[i].probe.value})
           /\ \A i \in DOMAIN ret.probes :
                 ret.probes[i].probe.value
                     => ret.probes[i].probe.attempts # <<>>

\* three monitors that could all be connected to: one in the quorum, one
\* outside it that answers, one outside it at the unspecified address
C23_OneOfEach ==
    /\ called
    /\ Len(arg.status.monmap.mons) = 3
    /\ \A k \in 1..3 : arg.reach[k]
    /\ ret.ok.count = 1 /\ ret.warn.count = 1 /\ ret.critical.count = 1
    /\ ret.ok.states = [in |-> 1]
    /\ ret.probes[2].probe.attempts = <<>>

----------------------------------------------------------------------------
(* Properties of _populate_pools *)

PoolRows(rows, c, pool_id) == {r \in rows : r.cluster = c /\ r.pool_id = pool_id}

\* the pools of the OSD map of the last call, and those with df statistics
InOsdMap(pool_id) ==
    \E k \in DOMAIN poolsLast.osd_map_pools : poolsLast.osd_map_pools[k].pool = pool_id

HasStats(pool_id) ==
    \E k \in DOMAIN poolsLast.df_pools : poolsLast.df_pools[k].id = pool_id

\* C24: after _populate_pools the cluster has no Pool row of a pool that is
\* not in the OSD map; a pool of the OSD map with df statistics has exactly
\* one row, the row it had before (same id) if it had one; a pool of the OSD
\* map without df statistics has the rows it had before, unchanged; the rows
\* of other clusters are as before.
C24_PoolsReconciled ==
    poolsLast.n > 0 =>
        /\ \A r \in pools : r.cluster = poolsLast.cluster => InOsdMap(r.pool_id)
        /\ \A i \in PoolIds :
              LET now_ == PoolRows(pools, poolsLast.cluster, i)
                  was == PoolRows(poolsLast.before, poolsLast.cluster, i)
              IN /\ (InOsdMap(i) /\ HasStats(i))
                       => /\ Cardinality(now_) = 1
                          /\ was # {} => {r.id : r \in now_} = {r.id : r \in was}
                          /\ was = {} => \A r \in now_ :
                                            \A q \in poolsLast.before : q.id # r.id
                 /\ (InOsdMap(i) /\ ~HasStats(i)) => now_ = was
        /\ {r \in pools : r.cluster # poolsLast.cluster}
              = {r \in poolsLast.before : r.cluster # poolsLast.cluster}

\* one call updated the row of pool 0 in place, created the row of pool 1,
\* and an earlier call had skipped pool 1 for lack of statistics
C24_UpdatedCreatedSkipped ==
    /\ poolsLast.n > 1
    /\ InOsdMap(0) /\ HasStats(0) /\ InOsdMap(1) /\ HasStats(1)
    /\ \E r \in poolsLast.before : /\ r.cluster = poolsLast.cluster /\ r.pool_id = 0
                                   /\ r \notin pools
    /\ PoolRows(poolsLast.before, poolsLast.cluster, 1) = {}
    /\ Cardinality(pools) > Cardinality(poolsLast.before)

====
